---- MODULE Spec2Model ----
(***************************************************************************)
(* Sudoku-Solver: the recursive backtracking search of class Sudoku        *)
(* (src/solve.py).  The recursion of solve() is unfolded into an explicit  *)
(* call stack of frames; one action per step of a solve() invocation.      *)
(***************************************************************************)
EXTENDS Integers, Sequences, FiniteSets

VARIABLES
    puzzle,   \* self._puzzle: puzzle[i][j], i, j in 0..8, values 0..9
    stack,    \* active solve() invocations, the innermost last
    ret,      \* <<>> or <<v>>: the value the last returned invocation hands to its caller
    status,   \* "idle" | "running" | "done" | "error" (an exception left solve())
    result,   \* what the root call solve(0, 0) returned (meaningful when status = "done")
    orig,     \* the grid as it was when the root call was made
    runs      \* number of root calls made so far

vars == <<puzzle, stack, ret, status, result, orig, runs>>

----------------------------------------------------------------------------
(* Bounds of the model *)

\* how many of the cells of BlankCells an input may have blank
NBlank == 5
\* how many of the entries of Overrides an input may carry (at most one at a time)
NOverride == 2
\* how many times solve() is called on the same Sudoku object
MaxRuns == 2

----------------------------------------------------------------------------
(* Program constants *)

\* side of the grid (the literal 9 of _next_location and _is_valid_guess)
N == 9
\* side of a box (the literal 3 of _is_valid_guess)
B == 3

Idx == 0 .. (N - 1)

\* the value None of Python
None == <<>>

----------------------------------------------------------------------------
(* Input strings: a solved grid, with some cells blanked and possibly one  *)
(* given digit replaced by another one.                                    *)

BaseString ==
    <<"5","3","4","6","7","8","9","1","2">> \o
    <<"6","7","2","1","9","5","3","4","8">> \o
    <<"1","9","8","3","4","2","5","6","7">> \o
    <<"8","5","9","7","6","1","4","2","3">> \o
    <<"4","2","6","8","5","3","7","9","1">> \o
    <<"7","1","3","9","2","4","8","5","6">> \o
    <<"9","6","1","5","3","7","2","8","4">> \o
    <<"2","8","7","4","1","9","6","3","5">> \o
    <<"3","4","5","2","8","6","1","7","9">>

\* cells (row, column) an input may have blank
BlankCells ==
    << <<6,3>>, <<7,8>>, <<7,3>>, <<6,8>>, <<8,8>>, <<0,0>>, <<3,5>> >>

\* (row, column, character) replacements of a given digit
Overrides ==
    << <<6,3,"4">>, <<0,1,"5">>, <<8,7,"9">>, <<4,4,"2">> >>

Min(a, b) == IF a < b THEN a ELSE b

StrIndex(i, j) == N * i + j + 1

BlankChoices == { BlankCells[k] : k \in 1 .. Min(NBlank, Len(BlankCells)) }

OverrideChoices == { Overrides[k] : k \in 1 .. Min(NOverride, Len(Overrides)) }

\* the base string with override ov (None: no override) and the cells of S blanked
InputString(S, ov) ==
    [ k \in 1 .. Len(BaseString) |->
        IF \E c \in S : StrIndex(c[1], c[2]) = k THEN "0"
        ELSE IF ov # None /\ StrIndex(ov[1], ov[2]) = k THEN ov[3]
        ELSE BaseString[k] ]

InputStrings ==
    { InputString(S, ov) : S \in SUBSET BlankChoices, ov \in OverrideChoices \cup {None} }

----------------------------------------------------------------------------
(* Construction of the grid *)

\* int() of a one-character string of digits
int(s) ==
    CASE s[1] = "0" -> 0 [] s[1] = "1" -> 1 [] s[1] = "2" -> 2 [] s[1] = "3" -> 3
      [] s[1] = "4" -> 4 [] s[1] = "5" -> 5 [] s[1] = "6" -> 6 [] s[1] = "7" -> 7
      [] s[1] = "8" -> 8 [] s[1] = "9" -> 9

\* [string[x : x + n] for x in range(0, len(string), n)]
split_string_interval(string, n) ==
    [ k \in 1 .. ((Len(string) + n - 1) \div n) |->
        SubSeq(string, (k - 1) * n + 1, Min(k * n, Len(string))) ]

\* the list of rows, each the list of the ints of its characters; kept with
\* the 0-based indices of the Python lists
create_puzzle_grid(string) ==
    LET rows == split_string_interval(string, N)
    IN  [ i \in 0 .. (Len(rows) - 1) |->
            LET digits == split_string_interval(rows[i + 1], 1)
            IN  [ j \in 0 .. (Len(digits) - 1) |-> int(digits[j + 1]) ] ]

----------------------------------------------------------------------------
(* Pure helpers of the search *)

\* _next_location without the "% 9" on the row: (8, 8) is followed by (9, 0)
next_location_nomod(i, j) ==
    LET next_j == (j + 1) % N
    IN  IF next_j = 0
        THEN LET next_i == i + 1
             IN  IF next_i # 0 THEN <<next_i, next_j>> ELSE None
        ELSE <<i, next_j>>

\* _next_location without the "next_i != 0" test: (8, 8) is followed by (0, 0)
next_location_wraps(i, j) ==
    LET next_j == (j + 1) % N
    IN  IF next_j = 0
        THEN <<(i + 1) % N, next_j>>
        ELSE <<i, next_j>>

next_location(i, j) ==
    LET next_j == (j + 1) % N
    IN  IF next_j = 0
        THEN LET next_i == (i + 1) % N
             IN  IF next_i # 0 THEN <<next_i, next_j>> ELSE None
        ELSE <<i, next_j>>

\* _is_valid_guess without the loop over the row
is_valid_guess_norow(p, i, j, guess) ==
    LET start_x == (i \div B) * B
        start_y == (j \div B) * B
    IN  /\ \A var_row \in Idx : p[var_row][j] # guess
        /\ \A var_row \in start_x .. (start_x + B - 1) :
             \A var_col \in start_y .. (start_y + B - 1) :
                p[var_row][var_col] # guess

is_valid_guess(p, i, j, guess) ==
    LET start_x == (i \div B) * B
        start_y == (j \div B) * B
    IN  /\ \A var_col \in Idx : p[i][var_col] # guess
        /\ \A var_row \in Idx : p[var_row][j] # guess
        /\ \A var_row \in start_x .. (start_x + B - 1) :
             \A var_col \in start_y .. (start_y + B - 1) :
                p[var_row][var_col] # guess

\* range(1, 9): the last candidate is never tried
GuessRange_short == [ k \in 1 .. 8 |-> k ]

\* range(9, 0, -1): the candidates in descending order
GuessRange_descending == [ k \in 1 .. 9 |-> 10 - k ]

\* range(1, 10), the candidates in the order the loop of solve() tries them
GuessRange == [ k \in 1 .. 9 |-> k ]

\* line 111 with the test inverted
is_given_inverted(p, i, j) == p[i][j] = 0

\* line 111: self._puzzle[i][j] != 0, the cell holds a digit
is_given(p, i, j) == p[i][j] # 0

\* self._puzzle[i][j] = guess
Assign(p, i, j, guess) == [ p EXCEPT ![i][j] = guess ]

\* line 129 left out: the cell keeps the last guess
Restore_omitted(p, i, j) == p

\* self._puzzle[i][j] = 0  # restore to default
Restore(p, i, j) == [ p EXCEPT ![i][j] = 0 ]

----------------------------------------------------------------------------
(* The call stack *)

\* a new invocation solve(i, j); entry records the grid it was entered with
Frame(i, j, p) == [ i |-> i, j |-> j, k |-> 1, pc |-> "start", entry |-> p ]

Top == stack[Len(stack)]

Running == status = "running" /\ stack # <<>>

\* the innermost invocation returns v: to its caller, or out of the root call
Return(v) ==
    /\ stack' = SubSeq(stack, 1, Len(stack) - 1)
    /\ IF Len(stack) = 1
       THEN /\ status' = "done"
            /\ result' = v
            /\ ret' = <<>>
       ELSE /\ ret' = <<v>>
            /\ UNCHANGED <<status, result>>

\* the innermost invocation calls self.solve(pos) on grid p and waits at pc
Invoke(pos, pc, p) ==
    /\ stack' = Append([ stack EXCEPT ![Len(stack)].pc = pc ], Frame(pos[1], pos[2], p))
    /\ ret' = <<>>
    /\ UNCHANGED <<status, result>>

----------------------------------------------------------------------------
(* Actions *)

Init ==
    /\ puzzle \in { create_puzzle_grid(s) : s \in InputStrings }
    /\ stack = <<>>
    /\ ret = <<>>
    /\ status = "idle"
    /\ result = FALSE
    /\ orig = puzzle
    /\ runs = 0

\* the caller invokes sudoku.solve() with the default arguments (0, 0)
Call ==
    /\ status \in {"idle", "done"}
    /\ runs < MaxRuns
    /\ runs' = runs + 1
    /\ orig' = puzzle
    /\ stack' = << Frame(0, 0, puzzle) >>
    /\ status' = "running"
    /\ ret' = <<>>
    /\ UNCHANGED <<puzzle, result>>

\* lines 111-118: entry of solve(i, j); the read of self._puzzle[i][j]
\* raises IndexError outside the grid
SolveEnter ==
    /\ Running
    /\ Top.pc = "start"
    /\ LET i == Top.i
           j == Top.j
       IN  IF ~ (i \in Idx /\ j \in Idx)
           THEN /\ status' = "error"
                /\ UNCHANGED <<puzzle, stack, ret, result>>
           ELSE IF is_given(puzzle, i, j)
           THEN LET positions == next_location(i, j)
                IN  /\ IF positions = None
                       THEN Return(TRUE)
                       ELSE Invoke(positions, "tail", puzzle)
                    /\ UNCHANGED puzzle
           ELSE /\ stack' = [ stack EXCEPT ![Len(stack)].pc = "loop" ]
                /\ UNCHANGED <<puzzle, ret, status, result>>
    /\ UNCHANGED <<orig, runs>>

\* lines 119-127: one iteration of the loop over the candidates
TryGuess ==
    /\ Running
    /\ Top.pc = "loop"
    /\ Top.k <= Len(GuessRange)
    /\ LET i == Top.i
           j == Top.j
           guess == GuessRange[Top.k]
       IN  IF is_valid_guess(puzzle, i, j, guess)
           THEN LET positions == next_location(i, j)
                IN  /\ puzzle' = Assign(puzzle, i, j, guess)
                    /\ IF positions = None
                       THEN Return(TRUE)
                       ELSE Invoke(positions, "wait", puzzle')
           ELSE /\ stack' = [ stack EXCEPT ![Len(stack)].k = @ + 1 ]
                /\ UNCHANGED <<puzzle, ret, status, result>>
    /\ UNCHANGED <<orig, runs>>

\* lines 129-130: the loop is exhausted; reset the cell and report failure
GiveUp ==
    /\ Running
    /\ Top.pc = "loop"
    /\ Top.k > Len(GuessRange)
    /\ puzzle' = Restore(puzzle, Top.i, Top.j)
    /\ Return(FALSE)
    /\ UNCHANGED <<orig, runs>>

\* line 117 written as "if self.solve(next_i, next_j): return True", so that a
\* failure falls through to the reset of line 129
ReturnTail_fallthrough ==
    /\ Running
    /\ Top.pc = "tail"
    /\ ret # <<>>
    /\ puzzle' = (IF ret[1] THEN puzzle ELSE Restore(puzzle, Top.i, Top.j))
    /\ Return(ret[1])
    /\ UNCHANGED <<orig, runs>>

\* line 117: return self.solve(next_i, next_j)
ReturnTail ==
    /\ Running
    /\ Top.pc = "tail"
    /\ ret # <<>>
    /\ Return(ret[1])
    /\ UNCHANGED <<puzzle, orig, runs>>

\* lines 127-128: if self.solve(next_i, next_j): return True; else next candidate
ReturnGuess ==
    /\ Running
    /\ Top.pc = "wait"
    /\ ret # <<>>
    /\ IF ret[1]
       THEN Return(TRUE)
       ELSE /\ stack' = [ stack EXCEPT ![Len(stack)].k = @ + 1,
                                       ![Len(stack)].pc = "loop" ]
            /\ ret' = <<>>
            /\ UNCHANGED <<status, result>>
    /\ UNCHANGED <<puzzle, orig, runs>>

Step ==
    \/ SolveEnter
    \/ TryGuess
    \/ GiveUp
    \/ ReturnTail
    \/ ReturnGuess

Next ==
    \/ Call
    \/ SolveEnter
    \/ TryGuess
    \/ GiveUp
    \/ ReturnTail
    \/ ReturnGuess

Spec == Init /\ [][Next]_vars

\* solve() is a synchronous computation: once called it keeps running
LiveSpec == Spec /\ WF_vars(Step)

----------------------------------------------------------------------------
(* Vocabulary of the properties *)

Cells == Idx \X Idx

RowUnit(i) == { <<i, j>> : j \in Idx }
ColUnit(j) == { <<i, j>> : i \in Idx }
BoxUnit(a, b) == { <<B * a + x, B * b + y>> : x \in 0 .. (B - 1), y \in 0 .. (B - 1) }

\* the rows, the columns and the boxes of the grid
Units ==
    { RowUnit(i) : i \in Idx } \cup { ColUnit(j) : j \in Idx }
        \cup { BoxUnit(a, b) : a \in 0 .. (N \div B - 1), b \in 0 .. (N \div B - 1) }

At(p, c) == p[c[1]][c[2]]

\* no row, column or box holds the same non-zero value twice
NoDup(p) ==
    \A u \in Units : \A c \in u : \A d \in u :
        (c # d /\ At(p, c) # 0) => At(p, c) # At(p, d)

\* every row, column and box holds each of 1..N exactly once
Solved(p) == \A u \in Units : { At(p, c) : c \in u } = 1 .. N

Full(p) == \A c \in Cells : At(p, c) # 0

Zeros(p) == Cardinality({ c \in Cells : At(p, c) = 0 })

\* the digits no given cell of a unit of cell c holds
AllowedAt(p, c) ==
    { v \in 1 .. N : \A u \in Units : c \in u => \A d \in u : At(p, d) # v }

\* all the ways to fill the blanks of p from cell number n on, each blank with
\* a digit the givens of p0 allow
RECURSIVE Fill(_, _, _)
Fill(p0, p, n) ==
    IF n = N * N THEN {p}
    ELSE LET c == <<n \div N, n % N>>
         IN  IF At(p0, c) # 0 THEN Fill(p0, p, n + 1)
             ELSE UNION { Fill(p0, [ p EXCEPT ![c[1]][c[2]] = v ], n + 1) : v \in AllowedAt(p0, c) }

\* the valid completions of grid p: the blanks filled, no duplicate anywhere
Completions(p) == { q \in Fill(p, p, 0) : NoDup(q) }

\* p is before q, or equal to it, when the cells are compared in row-major order
LexLeq(p, q) ==
    \/ p = q
    \/ \E n \in 0 .. (N * N - 1) :
         /\ p[n \div N][n % N] < q[n \div N][n % N]
         /\ \A m \in 0 .. (n - 1) : p[m \div N][m % N] = q[m \div N][m % N]

Done == status = "done"

\* the step pops an invocation that returns False
ReturnsFalse ==
    /\ Running
    /\ Len(stack') = Len(stack) - 1
    /\ \/ ret' = <<FALSE>>
       \/ status' = "done" /\ ~ result'

----------------------------------------------------------------------------
(* Claims *)

\* C1: whenever solve() started at (0,0) returns true, whatever the givens
\* of the input, every row, column and box of the grid holds each of 1..9
\* exactly once.
C1_TrueMeansSolved == (Done /\ result) => Solved(puzzle)

\* C2: every invocation of solve that returns false leaves the grid equal,
\* cell for cell, to the grid it was entered with; when the root call returns
\* false the grid is the original input.
C2_LeaveNoTrace ==
    [][ ReturnsFalse =>
          /\ puzzle' = Top.entry
          /\ (status' = "done" => puzzle' = orig) ]_vars

\* a guess was placed in a blank cell and the search below it has just failed
C2_Witness ==
    /\ Running
    /\ ret = <<FALSE>>
    /\ Top.pc = "wait"
    /\ At(puzzle, <<Top.i, Top.j>>) # 0
    /\ At(Top.entry, <<Top.i, Top.j>>) = 0

\* C3: every cell that is non-zero in the input holds its input value in
\* every state reached during solve() and in the final grid.
C3_GivensKept ==
    \A c \in Cells : At(orig, c) # 0 => At(puzzle, c) = At(orig, c)

\* a failure is being handed back through the invocation of a pre-filled cell
C3_Witness ==
    /\ Running
    /\ ret = <<FALSE>>
    /\ Top.pc = "tail"
    /\ At(orig, <<Top.i, Top.j>>) # 0

\* C4: on an input whose givens hold no duplicate, solve() returns true if
\* and only if the input has at least one valid completion.
C4_Complete ==
    (Done /\ NoDup(orig)) => (result <=> Completions(orig) # {})

\* solve() returned false on consistent givens with blanks (no completion exists)
C4_Witness ==
    /\ Done
    /\ NoDup(orig)
    /\ Zeros(orig) > 0
    /\ ~ result
    /\ Completions(orig) = {}

\* C5: on an input with the same digit given twice in a row, column or box,
\* solve() returns false and the grid is the original input afterwards.
C5_DuplicateGivensRejected ==
    (Done /\ ~ NoDup(orig)) => (~ result /\ puzzle = orig)

\* C6: on consistent givens with more than one valid completion, solve()
\* leaves the completion that is smallest in row-major lexicographic order.
C6_FirstFound ==
    (Done /\ NoDup(orig) /\ Cardinality(Completions(orig)) > 1) =>
        /\ result
        /\ puzzle \in Completions(orig)
        /\ \A q \in Completions(orig) : LexLeq(puzzle, q)

\* solve() finished on an input that had several valid completions
C6_Witness ==
    /\ Done
    /\ NoDup(orig)
    /\ Cardinality(Completions(orig)) > 1
    /\ puzzle # orig

\* C7: solve() on a grid whose cells are all non-zero and valid returns true
\* and writes to no cell.
C7_Idempotent ==
    [][ (status = "running" /\ Full(orig) /\ NoDup(orig)) =>
          /\ puzzle' = puzzle
          /\ status' # "error"
          /\ (status' = "done" => (result' /\ puzzle' = orig)) ]_vars

\* the second call, on the grid a successful first call left, has returned
C7_Witness ==
    /\ Done
    /\ runs = 2
    /\ result
    /\ Full(orig)
    /\ NoDup(orig)

\* C8: solve() started at (0,0) always terminates, with true or false; it
\* never ends in an error.
C8_Terminates ==
    /\ (status = "running") ~> (status = "done" /\ result \in BOOLEAN)
    /\ [](status # "error")

\* a search that had to backtrack on inconsistent givens has returned false
C8_Witness ==
    /\ Done
    /\ ~ result
    /\ ~ NoDup(orig)
    /\ Zeros(orig) > 1

\* C9: when the input holds no duplicate, no grid reached during solve()
\* holds the same non-zero value twice in a row, column or box.
C9_NoDuplicates == NoDup(orig) => NoDup(puzzle)

\* a later candidate is being tried over an earlier one that failed
C9_Witness ==
    /\ Running
    /\ NoDup(orig)
    /\ Top.pc = "loop"
    /\ Top.k > 1
    /\ Top.k <= Len(GuessRange)
    /\ At(puzzle, <<Top.i, Top.j>>) # 0

\* C10 as stated: the number of active invocations is at most the number of
\* cells that were blank in the input.
C10_DepthAtMostBlanks == Len(stack) <= Zeros(orig)

\* C10 as amended: the number of active invocations is at most 81, one for
\* each cell from (0,0) to the current one, pre-filled cells included.
C10_DepthAtMostCells ==
    /\ Len(stack) <= N * N
    /\ \A d \in 1 .. Len(stack) : N * stack[d].i + stack[d].j = d - 1

\* all 81 invocations are active on an input with fewer than 81 blanks
C10_Witness ==
    /\ Len(stack) = N * N
    /\ Zeros(orig) < Len(stack)

====
